---------------------------- MODULE Spec2Model ----------------------------
(***************************************************************************)
(* Model of examples/server/server.cpp: the POST /speech_to_text request   *)
(* pipeline.  Every inbound request runs on its own worker thread; all     *)
(* threads share one whisper_context (whisper_ctx) and one static abort    *)
(* flag (is_aborted).  Strings are sequences of one-character strings.     *)
(*                                                                         *)
(* Specifications:                                                         *)
(*   Spec        the listening server with the default configuration       *)
(*   MainSpec    main after the parsing: InitializeWhisper, bind, Spec's   *)
(*               request handling, and the return of listen_after_bind     *)
(*   ConfigSpec  main from its start over every configuration, up to the   *)
(*               call of the engine                                        *)
(*   RouterSpec  the listening server with every route of the Server       *)
(*   FaultSpec   the listening server when a handler can throw             *)
(*   EncodeSpec  the building of the success payload over every transcript *)
(*   ArgSpec     main from its first statement over every short argument   *)
(*               list: the two parsers, InitializeWhisper, bind            *)
(***************************************************************************)
EXTENDS Integers, Sequences, FiniteSets, TLC

\* ------------------------------------------------------------------ bounds
NumThreads  == 2    \* requests in one behaviour, each on its own worker thread
MaxSegments == 1    \* segments the handle holds at most
MaxTextLen  == 3    \* characters of a transcript in EncodeSpec
MaxArgs     == 3    \* arguments after the program name in ArgSpec

Threads == 1..NumThreads

\* texts a segment can carry: empty, or an ordinary character and a double quote
SegTexts == {<<>>, <<"a", "\"">>}

\* the characters of a transcript: an ordinary one, the double quote, the
\* backslash and the apostrophe
TextChars   == {"a", "\"", "\\", "'"}
Transcripts == UNION {[1..k -> TextChars] : k \in 0..MaxTextLen}

\* return values of whisper_full_parallel: 0 is success, anything else failure
StatusValues == {-1, 0, 1}

\* the uploaded files: a truncated container, a readable one without any
\* frame, and a readable one of one second
NoAudio     == [wellFormed |-> FALSE, frames |-> 0]
AudioInputs == {[wellFormed |-> FALSE, frames |-> 16000],
                [wellFormed |-> TRUE,  frames |-> 0],
                [wellFormed |-> TRUE,  frames |-> 16000]}

\* a request to POST /speech_to_text: without the "speech" field, or with it
NoRequest == [hasSpeech |-> FALSE, audio |-> NoAudio]
Requests  == {NoRequest} \cup {[hasSpeech |-> TRUE, audio |-> a] : a \in AudioInputs}

\* the address stored in wparams.encoder_begin_callback_user_data
AddrIsAborted == "&is_aborted"
NoAddr        == "nullptr"

\* std::optional<std::string>
NullOpt     == [has_value |-> FALSE, value |-> <<>>]
Some(s)     == [has_value |-> TRUE, value |-> s]

NoResponse  == [content |-> <<>>, content_type |-> "none"]

\* ------------------------------------------------------ the configuration
\* languages whisper_lang_id resolves, and the values -l can carry
KnownLanguages == {"en", "de"}
LanguageInputs == KnownLanguages \cup {"auto", "xx"}

\* whisper_lang_id: the identifier of a language, -1 when it is not known
whisper_lang_id(lang) ==
    IF lang = "en" THEN 0 ELSE IF lang = "de" THEN 2 ELSE -1

\* struct whisper_params with its default member initializers
DefaultParams ==
    [language        |-> "en",
     translate       |-> FALSE,
     detect_language |-> FALSE,
     diarize         |-> FALSE,
     tinydiarize     |-> FALSE,
     output_wts      |-> FALSE,
     max_len         |-> 0,
     best_of         |-> 2,
     beam_size       |-> -1,
     fname_inp       |-> <<>>]

\* the values -ml can carry
MaxLenInputs == {0, 5}

\* the values -bs and -bo can carry
BeamSizeInputs == {-2, -1, 0, 1, 2, 5}
BestOfInputs   == {1, 2, 5}

\* the whisper_params the command line can produce: every combination of the
\* language and output options with the default decoding options, ...
ParamInputs ==
    [language        : LanguageInputs,
     translate       : BOOLEAN,
     detect_language : BOOLEAN,
     diarize         : BOOLEAN,
     tinydiarize     : BOOLEAN,
     output_wts      : BOOLEAN,
     max_len         : MaxLenInputs,
     best_of         : {DefaultParams.best_of},
     beam_size       : {DefaultParams.beam_size},
     fname_inp       : {DefaultParams.fname_inp}]

\* ... and every combination of the decoding options with the defaults of
\* the others
StrategyInputs ==
    {[DefaultParams EXCEPT !.best_of = bo, !.beam_size = bs] :
        bo \in BestOfInputs, bs \in BeamSizeInputs}

\* no whisper_params: the thread holds no copy
NoParams == [DefaultParams EXCEPT !.language = ""]

\* the whisper_full_params a thread hands to the engine, and none
NoFullParams ==
    [strategy |-> "", language |-> "", translate |-> FALSE,
     detect_language |-> FALSE, token_timestamps |-> FALSE, max_len |-> 0,
     tdrz_enable |-> FALSE, greedy |-> [best_of |-> 0],
     beam_search |-> [beam_size |-> 0]]

\* the model file at params.model: absent or unreadable, an English-only
\* model, or a multilingual one
ModelFiles == {"missing", "en-only", "multilingual"}

\* whisper_context*: nullptr, or the context of a loaded model
NoCtx     == [loaded |-> FALSE, multilingual |-> FALSE]
Ctx(file) == [loaded |-> TRUE, multilingual |-> (file = "multilingual")]

\* whisper_init_from_file
whisper_init_from_file(file) == IF file = "missing" THEN NoCtx ELSE Ctx(file)

whisper_is_multilingual(ctx) == ctx.multilingual

\* what the process is started with: the parameters its command line asks
\* for, the model file, whether the port can be bound, and whether the build
\* defines NDEBUG
Environments ==
    [args : ParamInputs, model : ModelFiles, port_free : BOOLEAN, ndebug : BOOLEAN]
        \cup [args : StrategyInputs, model : {"en-only"}, port_free : {TRUE},
              ndebug : {TRUE}]

DefaultEnv ==
    [args |-> DefaultParams, model |-> "en-only", port_free |-> TRUE, ndebug |-> TRUE]

\* InitializeWhisper without the check of diarize against tinydiarize
InitializeWhisperNoDiarizeCheck(p, file) ==
    IF p.language # "auto" /\ whisper_lang_id(p.language) = -1 THEN NoCtx
    ELSE whisper_init_from_file(file)

\* InitializeWhisper without the check of the language
InitializeWhisperNoLanguageCheck(p, file) ==
    IF p.diarize /\ p.tinydiarize THEN NoCtx
    ELSE whisper_init_from_file(file)

\* InitializeWhisper: the handle of the model file, nullptr when the
\* parameters are rejected or the model does not load
InitializeWhisper(p, file) ==
    IF p.language # "auto" /\ whisper_lang_id(p.language) = -1 THEN NoCtx
    ELSE IF p.diarize /\ p.tinydiarize THEN NoCtx
    ELSE whisper_init_from_file(file)

\* ProcessAudio's changes to its copy of the parameters
AdjustParams(p, ctx) ==
    LET p1 == IF ~whisper_is_multilingual(ctx) /\ (p.language # "en" \/ p.translate)
              THEN [p EXCEPT !.language = "en", !.translate = FALSE]
              ELSE p
    IN  IF p1.detect_language THEN [p1 EXCEPT !.language = "auto"] ELSE p1

\* FullParams with token_timestamps taken from output_wts alone
FullParamsWtsOnly(p) ==
    [strategy         |-> IF p.beam_size > 1 THEN "WHISPER_SAMPLING_BEAM_SEARCH"
                          ELSE "WHISPER_SAMPLING_GREEDY",
     language         |-> p.language,
     translate        |-> p.translate,
     detect_language  |-> p.detect_language,
     token_timestamps |-> p.output_wts,
     max_len          |-> IF p.output_wts /\ p.max_len = 0 THEN 60 ELSE p.max_len,
     tdrz_enable      |-> p.tinydiarize,
     greedy           |-> [best_of |-> p.best_of],
     beam_search      |-> [beam_size |-> p.beam_size]]

\* FullParams that takes a beam of one for a beam search
FullParamsBeamOfOne(p) ==
    [strategy         |-> IF p.beam_size >= 1 THEN "WHISPER_SAMPLING_BEAM_SEARCH"
                          ELSE "WHISPER_SAMPLING_GREEDY",
     language         |-> p.language,
     translate        |-> p.translate,
     detect_language  |-> p.detect_language,
     token_timestamps |-> p.output_wts \/ p.max_len > 0,
     max_len          |-> IF p.output_wts /\ p.max_len = 0 THEN 60 ELSE p.max_len,
     tdrz_enable      |-> p.tinydiarize,
     greedy           |-> [best_of |-> p.best_of],
     beam_search      |-> [beam_size |-> p.beam_size]]

\* the whisper_full_params ProcessAudio builds from its parameters
FullParams(p) ==
    [strategy         |-> IF p.beam_size > 1 THEN "WHISPER_SAMPLING_BEAM_SEARCH"
                          ELSE "WHISPER_SAMPLING_GREEDY",
     language         |-> p.language,
     translate        |-> p.translate,
     detect_language  |-> p.detect_language,
     token_timestamps |-> p.output_wts \/ p.max_len > 0,
     max_len          |-> IF p.output_wts /\ p.max_len = 0 THEN 60 ELSE p.max_len,
     tdrz_enable      |-> p.tinydiarize,
     greedy           |-> [best_of |-> p.best_of],
     beam_search      |-> [beam_size |-> p.beam_size]]

\* ------------------------------------------------------ the command line
\* An argument is a TLA+ string; argv is the sequence of the arguments with
\* the program name first, so that C's argv[k] is argv[k + 1] here and argc
\* is Len(argv).  argv[argc] is the null pointer.
ProgramName == "server"

\* the arguments ArgSpec builds its command lines from: a flag only the
\* server parser knows, flags only the whisper parser knows (with a string,
\* with a number, without a value), a flag both know, a flag neither knows,
\* and two values
ArgTokens == {"--port", "-l", "-bs", "-tr", "-m", "-x", "de", "2"}

ArgLists ==
    {<<ProgramName>> \o tail :
        tail \in UNION {[1..k -> ArgTokens] : k \in 0..MaxArgs}}

\* arg[0] of a std::string: the terminating null for the empty string
FirstChar(arg) == IF Len(arg) = 0 THEN "" ELSE SubSeq(arg, 1, 1)

IsDigit(c)    == \E d \in 0..9 : SubSeq("0123456789", d + 1, d + 1) = c
DigitValue(c) == CHOOSE d \in 0..9 : SubSeq("0123456789", d + 1, d + 1) = c

\* the largest int
IntMax == 2147483647

\* the value of the digits of str from position k on, after acc; -1 when it
\* passes IntMax
RECURSIVE DigitsFrom(_, _, _)
DigitsFrom(str, k, acc) ==
    IF k > Len(str) \/ ~IsDigit(SubSeq(str, k, k)) THEN acc
    ELSE LET d == DigitValue(SubSeq(str, k, k))
         IN  IF acc > (IntMax - d) \div 10 THEN -1
             ELSE DigitsFrom(str, k + 1, acc * 10 + d)

\* std::stoi: an optional sign, then the longest run of digits; it throws
\* std::invalid_argument when there is no digit and std::out_of_range when
\* the value does not fit an int (the model takes -IntMax for the least int)
Stoi(str) ==
    LET signed == Len(str) > 0 /\ SubSeq(str, 1, 1) \in {"-", "+"}
        first  == IF signed THEN 2 ELSE 1
        digits == DigitsFrom(str, first, 0)
    IN  IF first > Len(str) \/ ~IsDigit(SubSeq(str, first, first))
        THEN [throws |-> TRUE, value |-> 0]
        ELSE IF digits = -1
        THEN [throws |-> TRUE, value |-> 0]
        ELSE [throws |-> FALSE,
              value  |-> IF signed /\ SubSeq(str, 1, 1) = "-" THEN 0 - digits
                         ELSE digits]

\* the decimal digits of a natural number, and of an int with its sign
RECURSIVE NatDigits(_)
NatDigits(n) ==
    IF n < 10 THEN SubSeq("0123456789", n + 1, n + 1)
    ELSE NatDigits(n \div 10) \o SubSeq("0123456789", (n % 10) + 1, (n % 10) + 1)

IntDigits(n) == IF n < 0 THEN "-" \o NatDigits(0 - n) ELSE NatDigits(n)

\* struct server_params with its default member initializers
DefaultServerParams ==
    [hostname      |-> "127.0.0.1",
     public_path   |-> "examples/server/public",
     port          |-> 8080,
     read_timeout  |-> 600,
     write_timeout |-> 600]

\* the members of gpt_params the server parser writes
DefaultGptParams == [model |-> "", n_threads |-> 0, n_batch |-> 0]

MinInt(a, b) == IF a < b THEN a ELSE b
MaxInt(a, b) == IF a > b THEN a ELSE b

\* the flags of server_params_parse that take a value, and its others
ServerValueFlags ==
    {"--port", "--host", "--path", "--timeout", "-to", "-m", "--model",
     "--threads", "-t", "-b", "--batch-size", "--tensor-split", "-ts",
     "--main-gpu", "-mg"}
ServerHelpFlags  == {"-h", "--help"}
ServerPlainFlags == {"--low-vram", "-lv", "-v", "--verbose"}
ServerFlags      == ServerValueFlags \cup ServerHelpFlags \cup ServerPlainFlags

\* what the server parser stores for a value flag
ServerStore(sp, gp, arg, val) ==
    IF arg = "--port"
    THEN [sparams |-> [sp EXCEPT !.port = Stoi(val).value], gpt_params |-> gp]
    ELSE IF arg = "--host"
    THEN [sparams |-> [sp EXCEPT !.hostname = val], gpt_params |-> gp]
    ELSE IF arg = "--path"
    THEN [sparams |-> [sp EXCEPT !.public_path = val], gpt_params |-> gp]
    ELSE IF arg \in {"--timeout", "-to"}
    THEN [sparams |-> [sp EXCEPT !.read_timeout  = Stoi(val).value,
                                 !.write_timeout = Stoi(val).value],
          gpt_params |-> gp]
    ELSE IF arg \in {"-m", "--model"}
    THEN [sparams |-> sp, gpt_params |-> [gp EXCEPT !.model = val]]
    ELSE IF arg \in {"--threads", "-t"}
    THEN [sparams |-> sp, gpt_params |-> [gp EXCEPT !.n_threads = Stoi(val).value]]
    ELSE IF arg \in {"-b", "--batch-size"}
    THEN [sparams |-> sp,
          gpt_params |-> [gp EXCEPT !.n_batch = MinInt(512, Stoi(val).value)]]
    ELSE [sparams |-> sp, gpt_params |-> gp]

\* the value flags of the server parser that call std::stoi
ServerStoiFlags ==
    {"--port", "--timeout", "-to", "--threads", "-t", "-b", "--batch-size"}

\* a line the parsers write to stderr
UnknownServerArgument(arg)  == [text |-> "error: unknown server argument: ", arg |-> arg]
UnknownWhisperArgument(arg) == [text |-> "error: unknown whisper argument: ", arg |-> arg]
InvalidParameter(arg)       == [text |-> "error: invalid parameter for argument: ", arg |-> arg]

\* one iteration of the loop of server_params_parse with i = k: the
\* parameters after it, i after the body, the highest index of argv it has
\* read, the lines it has written, and how it ends: "next" for the next
\* iteration, "invalid" for the break that leads to exit(1), "help" for
\* exit(0), "throw" for an exception of std::stoi
ServerArg(sp, gp, av, k) ==
    LET arg  == av[k + 1]
        same == [sparams |-> sp, gpt_params |-> gp, i |-> k, read |-> k,
                 lines |-> <<>>, outcome |-> "next"]
    IN  IF arg \in ServerValueFlags
        THEN IF k + 1 >= Len(av)
             THEN [same EXCEPT !.i = k + 1, !.outcome = "invalid",
                               !.lines = <<InvalidParameter(arg)>>]
             ELSE IF arg \in ServerStoiFlags /\ Stoi(av[k + 2]).throws
             THEN [same EXCEPT !.i = k + 1, !.read = k + 1, !.outcome = "throw"]
             ELSE [same EXCEPT !.i = k + 1, !.read = k + 1,
                               !.sparams = ServerStore(sp, gp, arg, av[k + 2]).sparams,
                               !.gpt_params = ServerStore(sp, gp, arg, av[k + 2]).gpt_params]
        ELSE IF arg \in ServerHelpFlags THEN [same EXCEPT !.outcome = "help"]
        ELSE IF arg \in ServerPlainFlags THEN same
        ELSE [same EXCEPT !.lines = <<UnknownServerArgument(arg)>>]

\* the flags of whisper_params_parse, by what they take
WhisperIntFlags ==
    {"-t", "--threads", "-p", "--processors", "-ot", "--offset-t", "-on",
     "--offset-n", "-d", "--duration", "-mc", "--max-context", "-ml",
     "--max-len", "-bo", "--best-of", "-bs", "--beam-size"}
WhisperFloatFlags ==
    {"-wt", "--word-thold", "-et", "--entropy-thold", "-lpt", "--logprob-thold"}
WhisperStringFlags ==
    {"-fp", "--font-path", "-of", "--output-file", "-l", "--language",
     "--prompt", "-m", "--model", "-f", "--file", "-oved", "--ov-e-device"}
WhisperBoolFlags ==
    {"-su", "--speed-up", "-tr", "--translate", "-di", "--diarize", "-tdrz",
     "--tinydiarize", "-sow", "--split-on-word", "-nf", "--no-fallback",
     "-otxt", "--output-txt", "-ovtt", "--output-vtt", "-osrt", "--output-srt",
     "-owts", "--output-words", "-olrc", "--output-lrc", "-ocsv",
     "--output-csv", "-oj", "--output-json", "-ps", "--print-special", "-pc",
     "--print-colors", "-pp", "--print-progress", "-nt", "--no-timestamps",
     "-dl", "--detect-language"}
WhisperHelpFlags  == {"-h", "--help"}
WhisperValueFlags == WhisperIntFlags \cup WhisperFloatFlags \cup WhisperStringFlags
WhisperFlags      == WhisperValueFlags \cup WhisperBoolFlags \cup WhisperHelpFlags

\* std::stof throws as std::stoi does when no number starts the string
StofThrows(str) ==
    LET first == IF Len(str) > 0 /\ SubSeq(str, 1, 1) \in {"-", "+"} THEN 2 ELSE 1
    IN  first > Len(str) \/ ~(IsDigit(SubSeq(str, first, first))
                              \/ SubSeq(str, first, first) = ".")

\* what the whisper parser stores for a flag with the value n (numbers) or
\* val (strings); the members that are not part of the model stay out
WhisperStoreInt(p, arg, n) ==
    IF arg \in {"-ml", "--max-len"}        THEN [p EXCEPT !.max_len = n]
    ELSE IF arg \in {"-bo", "--best-of"}   THEN [p EXCEPT !.best_of = n]
    ELSE IF arg \in {"-bs", "--beam-size"} THEN [p EXCEPT !.beam_size = n]
    ELSE p

WhisperStoreString(p, arg, val) ==
    IF arg \in {"-l", "--language"}  THEN [p EXCEPT !.language = val]
    ELSE IF arg \in {"-f", "--file"} THEN [p EXCEPT !.fname_inp = Append(@, val)]
    ELSE p

WhisperStoreBool(p, arg) ==
    IF arg \in {"-tr", "--translate"}            THEN [p EXCEPT !.translate = TRUE]
    ELSE IF arg \in {"-di", "--diarize"}         THEN [p EXCEPT !.diarize = TRUE]
    ELSE IF arg \in {"-tdrz", "--tinydiarize"}   THEN [p EXCEPT !.tinydiarize = TRUE]
    ELSE IF arg \in {"-owts", "--output-words"}  THEN [p EXCEPT !.output_wts = TRUE]
    ELSE IF arg \in {"-dl", "--detect-language"} THEN [p EXCEPT !.detect_language = TRUE]
    ELSE p

\* WhisperArg with the exit the source has commented out for an argument it
\* does not know
WhisperArgRejectsUnknown(p, av, k) ==
    LET arg  == av[k + 1]
        same == [params |-> p, i |-> k, read |-> k, lines |-> <<>>,
                 outcome |-> "next"]
    IN  IF arg = "-" \/ FirstChar(arg) # "-"
        THEN [same EXCEPT !.params = [p EXCEPT !.fname_inp = Append(@, arg)]]
        ELSE IF arg \in WhisperHelpFlags THEN [same EXCEPT !.outcome = "help"]
        ELSE IF arg \in WhisperValueFlags
        THEN IF k + 1 >= Len(av)
             THEN [same EXCEPT !.i = k + 1, !.read = k + 1, !.outcome = "null"]
             ELSE IF \/ arg \in WhisperIntFlags /\ Stoi(av[k + 2]).throws
                     \/ arg \in WhisperFloatFlags /\ StofThrows(av[k + 2])
             THEN [same EXCEPT !.i = k + 1, !.read = k + 1, !.outcome = "throw"]
             ELSE [same EXCEPT !.i = k + 1, !.read = k + 1,
                               !.params =
                                   IF arg \in WhisperIntFlags
                                   THEN WhisperStoreInt(p, arg, Stoi(av[k + 2]).value)
                                   ELSE WhisperStoreString(p, arg, av[k + 2])]
        ELSE IF arg \in WhisperBoolFlags
        THEN [same EXCEPT !.params = WhisperStoreBool(p, arg)]
        ELSE [same EXCEPT !.lines = <<UnknownWhisperArgument(arg)>>,
                          !.outcome = "help"]

\* one iteration of the loop of whisper_params_parse with i = k, as
\* ServerArg; "null" is the iteration that takes argv[argc], the null
\* pointer, for the value of its flag
WhisperArg(p, av, k) ==
    LET arg  == av[k + 1]
        same == [params |-> p, i |-> k, read |-> k, lines |-> <<>>,
                 outcome |-> "next"]
    IN  IF arg = "-" \/ FirstChar(arg) # "-"
        THEN [same EXCEPT !.params = [p EXCEPT !.fname_inp = Append(@, arg)]]
        ELSE IF arg \in WhisperHelpFlags THEN [same EXCEPT !.outcome = "help"]
        ELSE IF arg \in WhisperValueFlags
        THEN IF k + 1 >= Len(av)
             THEN [same EXCEPT !.i = k + 1, !.read = k + 1, !.outcome = "null"]
             ELSE IF \/ arg \in WhisperIntFlags /\ Stoi(av[k + 2]).throws
                     \/ arg \in WhisperFloatFlags /\ StofThrows(av[k + 2])
             THEN [same EXCEPT !.i = k + 1, !.read = k + 1, !.outcome = "throw"]
             ELSE [same EXCEPT !.i = k + 1, !.read = k + 1,
                               !.params =
                                   IF arg \in WhisperIntFlags
                                   THEN WhisperStoreInt(p, arg, Stoi(av[k + 2]).value)
                                   ELSE WhisperStoreString(p, arg, av[k + 2])]
        ELSE IF arg \in WhisperBoolFlags
        THEN [same EXCEPT !.params = WhisperStoreBool(p, arg)]
        ELSE [same EXCEPT !.lines = <<UnknownWhisperArgument(arg)>>]

\* A std::string made from the null pointer is undefined: the process is
\* killed by the read of the string ("segv"), or ends on the exception of
\* the library ("abort"), or goes on ("next") with some value in the member.
GarbageInts    == {0}
GarbageStrings == {""}

WhisperNullValue(p, arg) ==
    {[params |-> p, outcome |-> "segv"], [params |-> p, outcome |-> "abort"]}
        \cup {[params |-> q, outcome |-> "next"] :
                 q \in IF arg \in WhisperIntFlags
                       THEN {WhisperStoreInt(p, arg, n) : n \in GarbageInts}
                       ELSE IF arg \in WhisperFloatFlags THEN {p}
                       ELSE {WhisperStoreString(p, arg, g) : g \in GarbageStrings}}

\* server_params_parse from i = k on: the loop run to its end
RECURSIVE ServerParamsParseFrom(_, _, _, _, _)
ServerParamsParseFrom(sp, gp, av, k, lines) ==
    IF k >= Len(av)
    THEN [sparams |-> sp, gpt_params |-> gp, i |-> k,
          read |-> MaxInt(0, k - 1), lines |-> lines, outcome |-> "done"]
    ELSE LET r == ServerArg(sp, gp, av, k)
         IN  IF r.outcome = "next"
             THEN ServerParamsParseFrom(r.sparams, r.gpt_params, av, r.i + 1,
                                        lines \o r.lines)
             ELSE [r EXCEPT !.lines = lines \o r.lines]

\* whisper_params_parse from i = k on
RECURSIVE WhisperParamsParseFrom(_, _, _, _)
WhisperParamsParseFrom(p, av, k, lines) ==
    IF k >= Len(av)
    THEN [params |-> p, i |-> k, read |-> MaxInt(0, k - 1), lines |-> lines,
          outcome |-> "done"]
    ELSE LET r == WhisperArg(p, av, k)
         IN  IF r.outcome = "next"
             THEN WhisperParamsParseFrom(r.params, av, r.i + 1, lines \o r.lines)
             ELSE [r EXCEPT !.lines = lines \o r.lines]

\* a command line that asks for the parameters p
CommandLine(p) ==
    <<ProgramName>>
        \o (IF p.language # DefaultParams.language THEN <<"-l", p.language>> ELSE <<>>)
        \o (IF p.translate       THEN <<"-tr">>   ELSE <<>>)
        \o (IF p.detect_language THEN <<"-dl">>   ELSE <<>>)
        \o (IF p.diarize         THEN <<"-di">>   ELSE <<>>)
        \o (IF p.tinydiarize     THEN <<"-tdrz">> ELSE <<>>)
        \o (IF p.output_wts      THEN <<"-owts">> ELSE <<>>)
        \o (IF p.max_len # DefaultParams.max_len
            THEN <<"-ml", IntDigits(p.max_len)>> ELSE <<>>)
        \o (IF p.best_of # DefaultParams.best_of
            THEN <<"-bo", IntDigits(p.best_of)>> ELSE <<>>)
        \o (IF p.beam_size # DefaultParams.beam_size
            THEN <<"-bs", IntDigits(p.beam_size)>> ELSE <<>>)

\* an HTTP request line, and the one no thread has received
NoHttp       == [method |-> "", path |-> ""]
PostSpeech   == [method |-> "POST", path |-> "/speech_to_text"]

\* ------------------------------------------------------ response literals
JsonOkPrefix == <<"{", "'", "r", "e", "s", "u", "l", "t", "'", ":", " ", "1", ",", " ", "'", "t", "e", "x", "t", "'", ":", " ", "'">>
JsonOkSuffix == <<"'", "}", "\n">>
JsonFail     == <<"{", "'", "r", "e", "s", "u", "l", "t", "'", ":", " ", "0", "}", "\n">>
NoSpeechText == <<"C", "a", "n", "n", "o", "t", " ", "f", "i", "n", "d", " ", "s", "p", "e", "e", "c", "h", " ", "f", "i", "l", "e", " ", "i", "n", " ", "t", "h", "e", " ", "m", "u", "l", "t", "i", "p", "a", "r", "t", " ", "d", "a", "t", "a", ".", "\n">>

\* ------------------------------------------------------------ pure helpers
\* EscapeDoubleQuotesAndBackslashes that leaves the backslash alone
RECURSIVE EscapeDoubleQuotesOnly(_)
EscapeDoubleQuotesOnly(str) ==
    IF str = <<>> THEN <<>>
    ELSE LET c == Head(str)
         IN  (IF c = "\"" THEN <<"\\", c>> ELSE <<c>>)
                 \o EscapeDoubleQuotesOnly(Tail(str))

RECURSIVE EscapeDoubleQuotesAndBackslashes(_)
EscapeDoubleQuotesAndBackslashes(str) ==
    IF str = <<>> THEN <<>>
    ELSE LET c == Head(str)
         IN  (IF c = "\"" \/ c = "\\" THEN <<"\\", c>> ELSE <<c>>)
                 \o EscapeDoubleQuotesAndBackslashes(Tail(str))

\* ::read_wav(audio_data, pcmf32): TRUE and the decoded mono samples, or FALSE
ReadWavOk(audio)      == audio.wellFormed /\ audio.frames > 0
ReadWavSamples(audio) == IF ReadWavOk(audio) THEN audio.frames ELSE 0

\* SetContentFor with the test of has_value inverted
SetContentForInverted(result) ==
    IF ~result.has_value
    THEN [content      |-> JsonOkPrefix \o EscapeDoubleQuotesAndBackslashes(result.value) \o JsonOkSuffix,
          content_type |-> "application/json"]
    ELSE [content |-> JsonFail, content_type |-> "application/json"]

\* the handler's two JSON payloads
SetContentFor(result) ==
    IF result.has_value
    THEN [content      |-> JsonOkPrefix \o EscapeDoubleQuotesAndBackslashes(result.value) \o JsonOkSuffix,
          content_type |-> "application/json"]
    ELSE [content |-> JsonFail, content_type |-> "application/json"]

NoSpeechResponse == [content |-> NoSpeechText, content_type |-> "text/plain"]

\* the bodies of the error handler and of the exception handler
FileNotFoundText     == <<"F", "i", "l", "e", " ", "N", "o", "t", " ", "F", "o", "u", "n", "d">>
InternalErrorText    == <<"5", "0", "0", " ", "I", "n", "t", "e", "r", "n", "a", "l", " ", "S", "e", "r", "v", "e", "r", " ", "E", "r", "r", "o", "r", "\n">>
UnknownExceptionText == <<"U", "n", "k", "n", "o", "w", "n", " ", "E", "x", "c", "e", "p", "t", "i", "o", "n">>

\* what a handler can throw: a std::exception with its what(), or anything
\* else; and no exception
Exceptions ==
    {[thrown |-> TRUE, is_std |-> TRUE,  what |-> <<"b", "a", "d">>],
     [thrown |-> TRUE, is_std |-> FALSE, what |-> <<>>]}
NoException == [thrown |-> FALSE, is_std |-> FALSE, what |-> <<>>]

\* the content set by the exception handler for exception e
ExceptionHandlerResponse(e) ==
    [content      |-> InternalErrorText \o (IF e.is_std THEN e.what
                                             ELSE UnknownExceptionText),
     content_type |-> "text/plain"]

\* the content set by the error handler
ErrorHandlerResponse == [content |-> FileNotFoundText, content_type |-> "text/plain"]

\* the routes of the Server: the three GET fallbacks with what they serve
\* (one token stands for the text of each generated file), POST
\* /speech_to_text, and OPTIONS on every path
StaticContent ==
    [path \in {"/", "/index.js", "/completion.js"} |->
        IF path = "/" THEN [content |-> <<"index.html">>, content_type |-> "text/html"]
        ELSE IF path = "/index.js"
             THEN [content |-> <<"index.js">>, content_type |-> "text/javascript"]
             ELSE [content |-> <<"completion.js">>,
                   content_type |-> "application/javascript"]]

OptionsResponse == [content |-> <<>>, content_type |-> "application/json"]

\* the request lines a client sends besides POST /speech_to_text
OtherRequests ==
    {[method |-> "GET",     path |-> "/"],
     [method |-> "GET",     path |-> "/index.js"],
     [method |-> "GET",     path |-> "/completion.js"],
     [method |-> "OPTIONS", path |-> "/speech_to_text"],
     [method |-> "GET",     path |-> "/speech_to_text"],
     [method |-> "POST",    path |-> "/nope"]}

\* the handler the Server finds for a request line, "none" when there is none
Route(h) ==
    IF h.method = "POST" /\ h.path = "/speech_to_text" THEN "speech_to_text"
    ELSE IF h.method = "GET" /\ h.path \in DOMAIN StaticContent THEN "static"
    ELSE IF h.method = "OPTIONS" THEN "options"
    ELSE "none"

\* a sequence with every occurrence of t removed
RECURSIVE Without(_, _)
Without(q, t) ==
    IF q = <<>> THEN <<>>
    ELSE IF Head(q) = t THEN Without(Tail(q), t)
         ELSE <<Head(q)>> \o Without(Tail(q), t)

\* ------------------------------------------------------------------- state
VARIABLES
    pc,          \* per thread: position in the request's handling
    req,         \* per thread: the request being handled
    pcmf32,      \* per thread: number of decoded samples in ProcessAudio's buffer
    user_data,   \* per thread: wparams.encoder_begin_callback_user_data
    status,      \* per thread: value returned by whisper_full_parallel
    n_segments,  \* per thread: ProcessAudio's local n_segments
    i,           \* per thread: ProcessAudio's loop index
    output,      \* per thread: ProcessAudio's local output string
    result,      \* per thread: the optional returned by ProcessAudio
    response,    \* per thread: the content set on the Response
    connClosed,  \* per thread: the client connection was closed by a timeout
    decodeCalls, \* per thread: calls of read_wav made for the request
    engineCalls, \* per thread: calls of whisper_full_parallel made for the request
    jobText,     \* per thread: the joined texts of the segments of the request's own
                 \* run, kept until ProcessAudio returns
    ctxSegs,     \* the segments held by the shared whisper_ctx
    is_aborted,  \* the function-local static flag of ProcessAudio
    gateQueue,   \* threads that are about to call the engine, in arrival order
    crashed,     \* the process died of a fault
    main_pc,     \* position of main: "init", "bind", "listening", "exited"
    exit_code,   \* the status the process ended with, -1 while it runs
    wparams,     \* main's whisper_params, which the handler passes to ProcessAudio
    whisper_ctx, \* main's whisper_context*
    env,         \* the model file, the port and the build the process runs with
    params,      \* per thread: ProcessAudio's by-value copy of the parameters
    full_params, \* per thread: the whisper_full_params ProcessAudio has built
    http,        \* per thread: method and path of the request received
    res_status,  \* per thread: the status of the response written, -1 before
    ep,          \* per thread: what() of the exception the handler raised
    argv,        \* the arguments of main, the program name first
    argi,        \* the loop variable i of the parser that runs
    argv_read,   \* the highest index of argv the parsers have read
    sparams,     \* main's server_params
    gpt_params,  \* main's gpt_params
    stderr,      \* the lines the parsers have written to stderr
    released     \* calls of ReleaseWhisper made

vars == <<pc, req, pcmf32, user_data, status, n_segments, i, output, result,
          response, connClosed, decodeCalls, engineCalls, jobText, ctxSegs,
          is_aborted, gateQueue, crashed, main_pc, exit_code, wparams,
          whisper_ctx, env, params, full_params, http, res_status, ep, argv,
          argi, argv_read, sparams, gpt_params, stderr, released>>

\* the variables that belong to one request's handling
locals == <<pcmf32, user_data, status, n_segments, i, output, result, params,
            full_params>>

\* the variables of the argument parsing
parseVars == <<argv, argi, argv_read, sparams, gpt_params, stderr>>

\* the variables of main
mainVars == <<main_pc, exit_code, wparams, whisper_ctx, env, parseVars, released>>

\* what the Server keeps of a connection besides the response content
conn == <<http, res_status, ep>>

\* no request has arrived and no thread has started
Quiet ==
    /\ pc          = [t \in Threads |-> "idle"]
    /\ req         = [t \in Threads |-> NoRequest]
    /\ pcmf32      = [t \in Threads |-> 0]
    /\ user_data   = [t \in Threads |-> NoAddr]
    /\ status      = [t \in Threads |-> 0]
    /\ n_segments  = [t \in Threads |-> 0]
    /\ i           = [t \in Threads |-> 0]
    /\ output      = [t \in Threads |-> <<>>]
    /\ result      = [t \in Threads |-> NullOpt]
    /\ response    = [t \in Threads |-> NoResponse]
    /\ connClosed  = [t \in Threads |-> FALSE]
    /\ decodeCalls = [t \in Threads |-> 0]
    /\ engineCalls = [t \in Threads |-> 0]
    /\ jobText     = [t \in Threads |-> <<>>]
    /\ ctxSegs     = <<>>
    /\ is_aborted  = FALSE
    /\ gateQueue   = <<>>
    /\ crashed     = FALSE
    /\ params      = [t \in Threads |-> NoParams]
    /\ full_params = [t \in Threads |-> NoFullParams]
    /\ http        = [t \in Threads |-> NoHttp]
    /\ res_status  = [t \in Threads |-> -1]
    /\ ep          = [t \in Threads |-> NoException]

\* both parsers have run over the command line av to the end
Parsed(av) ==
    LET s == ServerParamsParseFrom(DefaultServerParams, DefaultGptParams, av, 1, <<>>)
        w == WhisperParamsParseFrom(DefaultParams, av, 1, <<>>)
    IN  /\ argv       = av
        /\ argi       = w.i
        /\ argv_read  = w.read
        /\ sparams    = s.sparams
        /\ gpt_params = s.gpt_params
        /\ stderr     = s.lines \o w.lines
        /\ wparams    = w.params

\* the server listens: main, started in environment e, is inside
\* listen_after_bind with the parsed parameters and the handle of the model
Listening(e) ==
    /\ main_pc     = "listening"
    /\ exit_code   = -1
    /\ Parsed(CommandLine(e.args))
    /\ whisper_ctx = whisper_init_from_file(e.model)
    /\ env         = e
    /\ released    = 0

\* the server started without arguments and listens
Init == Quiet /\ Listening(DefaultEnv)

\* the process is gone with the status code: no thread and no request is left
ProcessEnds(code) ==
    /\ pc'          = [t \in Threads |-> "dead"]
    /\ req'         = [t \in Threads |-> NoRequest]
    /\ pcmf32'      = [t \in Threads |-> 0]
    /\ user_data'   = [t \in Threads |-> NoAddr]
    /\ status'      = [t \in Threads |-> 0]
    /\ n_segments'  = [t \in Threads |-> 0]
    /\ i'           = [t \in Threads |-> 0]
    /\ output'      = [t \in Threads |-> <<>>]
    /\ result'      = [t \in Threads |-> NullOpt]
    /\ response'    = [t \in Threads |-> NoResponse]
    /\ connClosed'  = [t \in Threads |-> FALSE]
    /\ decodeCalls' = [t \in Threads |-> 0]
    /\ engineCalls' = [t \in Threads |-> 0]
    /\ jobText'     = [t \in Threads |-> <<>>]
    /\ ctxSegs'     = <<>>
    /\ gateQueue'   = <<>>
    /\ crashed'     = TRUE
    /\ params'      = [t \in Threads |-> NoParams]
    /\ full_params' = [t \in Threads |-> NoFullParams]
    /\ http'        = [t \in Threads |-> NoHttp]
    /\ res_status'  = [t \in Threads |-> -1]
    /\ ep'          = [t \in Threads |-> NoException]
    /\ main_pc'     = "exited"
    /\ exit_code'   = code
    /\ UNCHANGED <<is_aborted, wparams, whisper_ctx, env, parseVars, released>>

\* the process is killed by a memory fault (SIGSEGV)
Dead == ProcessEnds(139)

\* std::terminate after an exception nothing catches (SIGABRT)
Terminate == ProcessEnds(134)

\* ----------------------------------------------------------------- actions

\* SpeechToText without the has_file check
SpeechToTextNoCheck(t, r) ==
    /\ main_pc = "listening"
    /\ pc[t] = "idle"
    /\ req'  = [req EXCEPT ![t] = r]
    /\ http' = [http EXCEPT ![t] = PostSpeech]
    /\ pc'   = [pc EXCEPT ![t] = "process"]
    /\ UNCHANGED <<locals, response, connClosed, decodeCalls, engineCalls,
                   jobText, ctxSegs, is_aborted, gateQueue, crashed, mainVars,
                   res_status, ep>>

\* SpeechToText without the return after the content of the missing file
SpeechToTextNoReturn(t, r) ==
    /\ main_pc = "listening"
    /\ pc[t] = "idle"
    /\ req'  = [req EXCEPT ![t] = r]
    /\ http' = [http EXCEPT ![t] = PostSpeech]
    /\ pc'   = [pc EXCEPT ![t] = "process"]
    /\ IF ~r.hasSpeech
       THEN response' = [response EXCEPT ![t] = NoSpeechResponse]
       ELSE UNCHANGED response
    /\ UNCHANGED <<locals, connClosed, decodeCalls, engineCalls, jobText,
                   ctxSegs, is_aborted, gateQueue, crashed, mainVars,
                   res_status, ep>>

\* the listening Server hands a POST /speech_to_text with body r to a worker
\* thread, which runs the handler up to the call of ProcessAudio: the has_file
\* check.  A handler that returns without setting a status is answered 200.
SpeechToText(t, r) ==
    /\ main_pc = "listening"
    /\ pc[t] = "idle"
    /\ req'  = [req EXCEPT ![t] = r]
    /\ http' = [http EXCEPT ![t] = PostSpeech]
    /\ IF ~r.hasSpeech
       THEN /\ response'   = [response EXCEPT ![t] = NoSpeechResponse]
            /\ res_status' = [res_status EXCEPT ![t] = 200]
            /\ pc'         = [pc EXCEPT ![t] = "done"]
       ELSE /\ pc'         = [pc EXCEPT ![t] = "process"]
            /\ UNCHANGED <<response, res_status>>
    /\ UNCHANGED <<locals, connClosed, decodeCalls, engineCalls, jobText,
                   ctxSegs, is_aborted, gateQueue, crashed, mainVars, ep>>

\* ProcessAudio without the early return after a failed read_wav
ProcessAudioIgnoreReadFailure(t) ==
    /\ pc[t] = "process"
    /\ decodeCalls' = [decodeCalls EXCEPT ![t] = @ + 1]
    /\ pcmf32'      = [pcmf32 EXCEPT ![t] = ReadWavSamples(req[t].audio)]
    /\ params'      = [params EXCEPT ![t] = AdjustParams(wparams, whisper_ctx)]
    /\ full_params' = [full_params EXCEPT ![t] =
                           FullParams(AdjustParams(wparams, whisper_ctx))]
    /\ user_data'   = [user_data EXCEPT ![t] = AddrIsAborted]
    /\ gateQueue'   = Append(gateQueue, t)
    /\ pc'          = [pc EXCEPT ![t] = "submit"]
    /\ UNCHANGED <<req, status, n_segments, i, output, result, response,
                   connClosed, engineCalls, jobText, ctxSegs, is_aborted,
                   crashed, mainVars, conn>>

\* ProcessAudio whose params is a reference to main's wparams
ProcessAudioByReference(t) ==
    /\ pc[t] = "process"
    /\ decodeCalls' = [decodeCalls EXCEPT ![t] = @ + 1]
    /\ IF ~ReadWavOk(req[t].audio)
       THEN /\ result' = [result EXCEPT ![t] = NullOpt]
            /\ pc'     = [pc EXCEPT ![t] = "respond"]
            /\ UNCHANGED <<pcmf32, params, full_params, user_data, gateQueue,
                           wparams>>
       ELSE /\ pcmf32'      = [pcmf32 EXCEPT ![t] = ReadWavSamples(req[t].audio)]
            /\ wparams'     = AdjustParams(wparams, whisper_ctx)
            /\ params'      = [params EXCEPT ![t] = AdjustParams(wparams, whisper_ctx)]
            /\ full_params' = [full_params EXCEPT ![t] =
                                   FullParams(AdjustParams(wparams, whisper_ctx))]
            /\ user_data'   = [user_data EXCEPT ![t] = AddrIsAborted]
            /\ gateQueue'   = Append(gateQueue, t)
            /\ pc'          = [pc EXCEPT ![t] = "submit"]
            /\ UNCHANGED result
    /\ UNCHANGED <<req, status, n_segments, i, output, response, connClosed,
                   engineCalls, jobText, ctxSegs, is_aborted, crashed, main_pc,
                   exit_code, whisper_ctx, env, parseVars, released, conn>>

\* ProcessAudio that reads the upload a second time after a failed read_wav
ProcessAudioRetry(t) ==
    /\ pc[t] = "process"
    /\ decodeCalls' = [decodeCalls EXCEPT ![t] = @ + 1]
    /\ IF ~ReadWavOk(req[t].audio)
       THEN /\ result' = [result EXCEPT ![t] = NullOpt]
            /\ pc'     = [pc EXCEPT ![t] = IF decodeCalls[t] = 0 THEN "process"
                                           ELSE "respond"]
            /\ UNCHANGED <<pcmf32, params, full_params, user_data, gateQueue>>
       ELSE /\ pcmf32'      = [pcmf32 EXCEPT ![t] = ReadWavSamples(req[t].audio)]
            /\ params'      = [params EXCEPT ![t] = AdjustParams(wparams, whisper_ctx)]
            /\ full_params' = [full_params EXCEPT ![t] =
                                   FullParams(AdjustParams(wparams, whisper_ctx))]
            /\ user_data'   = [user_data EXCEPT ![t] = AddrIsAborted]
            /\ gateQueue'   = Append(gateQueue, t)
            /\ pc'          = [pc EXCEPT ![t] = "submit"]
            /\ UNCHANGED result
    /\ UNCHANGED <<req, status, n_segments, i, output, response, connClosed,
                   engineCalls, jobText, ctxSegs, is_aborted, crashed, mainVars,
                   conn>>

\* ProcessAudio from its entry to the point just before whisper_full_parallel:
\* read_wav, the early return on failure, the changes to the by-value copy of
\* the parameters, and the set-up of the whisper_full_params
ProcessAudio(t) ==
    /\ pc[t] = "process"
    /\ decodeCalls' = [decodeCalls EXCEPT ![t] = @ + 1]
    /\ IF ~ReadWavOk(req[t].audio)
       THEN /\ result' = [result EXCEPT ![t] = NullOpt]
            /\ pc'     = [pc EXCEPT ![t] = "respond"]
            /\ UNCHANGED <<pcmf32, params, full_params, user_data, gateQueue>>
       ELSE /\ pcmf32'      = [pcmf32 EXCEPT ![t] = ReadWavSamples(req[t].audio)]
            /\ params'      = [params EXCEPT ![t] = AdjustParams(wparams, whisper_ctx)]
            /\ full_params' = [full_params EXCEPT ![t] =
                                   FullParams(AdjustParams(wparams, whisper_ctx))]
            /\ user_data'   = [user_data EXCEPT ![t] = AddrIsAborted]
            /\ gateQueue'   = Append(gateQueue, t)
            /\ pc'          = [pc EXCEPT ![t] = "submit"]
            /\ UNCHANGED result
    /\ UNCHANGED <<req, status, n_segments, i, output, response, connClosed,
                   engineCalls, jobText, ctxSegs, is_aborted, crashed, mainVars,
                   conn>>

\* the call of whisper_full_parallel: the engine starts on the shared handle
\* and drops the segments of the previous run
WhisperFullBegin(t) ==
    /\ pc[t] = "submit"
    /\ pc'          = [pc EXCEPT ![t] = "engine"]
    /\ engineCalls' = [engineCalls EXCEPT ![t] = @ + 1]
    /\ gateQueue'   = Without(gateQueue, t)
    /\ ctxSegs'     = <<>>
    /\ UNCHANGED <<req, locals, response, connClosed, decodeCalls, jobText,
                   is_aborted, crashed, mainVars, conn>>

\* encoder_begin_callback: reads the flag user_data points to, TRUE to go on
EncoderBeginCallback(t) ==
    IF user_data[t] = AddrIsAborted THEN ~is_aborted ELSE TRUE

\* one encoder pass of the running engine: it starts only when the abort check
\* lets it, and adds one segment to the handle; after a "stop" the run can
\* only return
EncoderPass(t, txt) ==
    /\ pc[t] = "engine"
    /\ Len(ctxSegs) < MaxSegments
    /\ EncoderBeginCallback(t)
    /\ jobText' = [jobText EXCEPT ![t] = @ \o txt]
    /\ ctxSegs' = Append(ctxSegs, txt)
    /\ UNCHANGED <<pc, req, locals, response, connClosed, decodeCalls,
                   engineCalls, is_aborted, gateQueue, crashed, mainVars, conn>>

\* whisper_full_parallel that reports a failure only by a negative status
WhisperFullEndNegative(t, st) ==
    /\ pc[t] = "engine"
    /\ status'     = [status EXCEPT ![t] = st]
    /\ connClosed' = [connClosed EXCEPT ![t] = FALSE]
    /\ IF st < 0
       THEN /\ result'  = [result EXCEPT ![t] = NullOpt]
            /\ jobText' = [jobText EXCEPT ![t] = <<>>]
            /\ pc'      = [pc EXCEPT ![t] = "respond"]
       ELSE /\ pc'      = [pc EXCEPT ![t] = "returned"]
            /\ UNCHANGED <<result, jobText>>
    /\ UNCHANGED <<req, pcmf32, user_data, n_segments, i, output, response,
                   decodeCalls, engineCalls, ctxSegs, is_aborted, gateQueue,
                   crashed, params, full_params, mainVars, conn>>

\* whisper_full_parallel whose status is not looked at
WhisperFullEndIgnored(t, st) ==
    /\ pc[t] = "engine"
    /\ status'     = [status EXCEPT ![t] = st]
    /\ connClosed' = [connClosed EXCEPT ![t] = FALSE]
    /\ pc'         = [pc EXCEPT ![t] = "returned"]
    /\ UNCHANGED <<req, pcmf32, user_data, n_segments, i, output, result,
                   response, decodeCalls, engineCalls, jobText, ctxSegs,
                   is_aborted, gateQueue, crashed, params, full_params,
                   mainVars, conn>>

\* whisper_full_parallel returns its completion status and ProcessAudio tests
\* it: a non-zero status is the early return of nullopt.  The job is no longer
\* in flight, so its connection is no longer watched.
WhisperFullEnd(t, st) ==
    /\ pc[t] = "engine"
    /\ status'     = [status EXCEPT ![t] = st]
    /\ connClosed' = [connClosed EXCEPT ![t] = FALSE]
    /\ IF st # 0
       THEN /\ result'  = [result EXCEPT ![t] = NullOpt]
            /\ jobText' = [jobText EXCEPT ![t] = <<>>]
            /\ pc'      = [pc EXCEPT ![t] = "respond"]
       ELSE /\ pc'      = [pc EXCEPT ![t] = "returned"]
            /\ UNCHANGED <<result, jobText>>
    /\ UNCHANGED <<req, pcmf32, user_data, n_segments, i, output, response,
                   decodeCalls, engineCalls, ctxSegs, is_aborted, gateQueue,
                   crashed, params, full_params, mainVars, conn>>

\* the read of the segment count from the handle; with no segment the loop
\* is skipped and the empty output is returned
FullNSegments(t) ==
    /\ pc[t] = "returned"
    /\ n_segments' = [n_segments EXCEPT ![t] = Len(ctxSegs)]
    /\ i'          = [i EXCEPT ![t] = 0]
    /\ output'     = [output EXCEPT ![t] = <<>>]
    /\ IF Len(ctxSegs) = 0
       THEN /\ result'  = [result EXCEPT ![t] = Some(<<>>)]
            /\ jobText' = [jobText EXCEPT ![t] = <<>>]
            /\ pc'      = [pc EXCEPT ![t] = "respond"]
       ELSE /\ pc'      = [pc EXCEPT ![t] = "loop"]
            /\ UNCHANGED <<result, jobText>>
    /\ UNCHANGED <<req, pcmf32, user_data, status, response, connClosed,
                   decodeCalls, engineCalls, ctxSegs, is_aborted, gateQueue,
                   crashed, params, full_params, mainVars, conn>>

\* the text of segment k (from 0) of the handle; a read past the end of the
\* handle's segments yields any text
SegmentText(k, garbage) ==
    IF k < Len(ctxSegs) THEN ctxSegs[k + 1] ELSE garbage

\* one iteration of the segment loop; after the last one output is returned.
\* A read past the end of the handle's segments can also be a fault.
SegmentLoop(t, garbage, fault) ==
    /\ pc[t] = "loop"
    /\ i[t] < n_segments[t]
    /\ IF i[t] >= Len(ctxSegs) /\ fault
       THEN Dead
       ELSE /\ output' = [output EXCEPT ![t] = @ \o SegmentText(i[t], garbage)]
            /\ i'      = [i EXCEPT ![t] = @ + 1]
            /\ IF i[t] + 1 < n_segments[t]
               THEN UNCHANGED <<pc, result, jobText>>
               ELSE /\ result'  = [result EXCEPT ![t] =
                                      Some(output[t] \o SegmentText(i[t], garbage))]
                    /\ jobText' = [jobText EXCEPT ![t] = <<>>]
                    /\ pc'      = [pc EXCEPT ![t] = "respond"]
            /\ UNCHANGED <<req, pcmf32, user_data, status, n_segments, response,
                           connClosed, decodeCalls, engineCalls, ctxSegs,
                           is_aborted, gateQueue, crashed, params, full_params,
                           mainVars, conn>>

\* the handler after ProcessAudio has returned: one of the two JSON payloads,
\* answered 200; the locals of ProcessAudio are gone and the connection is
\* finished with
Respond(t) ==
    /\ pc[t] = "respond"
    /\ response'    = [response EXCEPT ![t] = SetContentFor(result[t])]
    /\ res_status'  = [res_status EXCEPT ![t] = 200]
    /\ pc'          = [pc EXCEPT ![t] = "done"]
    /\ pcmf32'      = [pcmf32 EXCEPT ![t] = 0]
    /\ params'      = [params EXCEPT ![t] = NoParams]
    /\ full_params' = [full_params EXCEPT ![t] = NoFullParams]
    /\ user_data'   = [user_data EXCEPT ![t] = NoAddr]
    /\ n_segments'  = [n_segments EXCEPT ![t] = 0]
    /\ i'           = [i EXCEPT ![t] = 0]
    /\ output'      = [output EXCEPT ![t] = <<>>]
    /\ connClosed'  = [connClosed EXCEPT ![t] = FALSE]
    /\ UNCHANGED <<req, status, result, decodeCalls, engineCalls, jobText,
                   ctxSegs, is_aborted, gateQueue, crashed, mainVars, http,
                   ep>>

\* the read/write timeout closes the connection of a request whose job runs
ConnTimeout(t) ==
    /\ pc[t] = "engine"
    /\ ~connClosed[t]
    /\ connClosed' = [connClosed EXCEPT ![t] = TRUE]
    /\ UNCHANGED <<pc, req, locals, response, decodeCalls, engineCalls,
                   jobText, ctxSegs, is_aborted, gateQueue, crashed, mainVars,
                   conn>>

\* two threads use the handle at once while one of them runs the engine:
\* the unsynchronized access can bring the process down
RaceFault(t, u) ==
    /\ t # u
    /\ pc[t] = "engine"
    /\ pc[u] \in {"engine", "returned", "loop"}
    /\ Dead

Next ==
    \/ \E t \in Threads, r \in Requests : SpeechToText(t, r)
    \/ \E t \in Threads : ProcessAudio(t)
    \/ \E t \in Threads : WhisperFullBegin(t)
    \/ \E t \in Threads, txt \in SegTexts : EncoderPass(t, txt)
    \/ \E t \in Threads, st \in StatusValues : WhisperFullEnd(t, st)
    \/ \E t \in Threads : FullNSegments(t)
    \/ \E t \in Threads, g \in SegTexts, f \in BOOLEAN : SegmentLoop(t, g, f)
    \/ \E t \in Threads : Respond(t)
    \/ \E t \in Threads : ConnTimeout(t)
    \/ \E t, u \in Threads : RaceFault(t, u)

Spec == Init /\ [][Next]_vars

\* the steps of the program that thread t takes by itself
ThreadStep(t) ==
    \/ \E r \in Requests : SpeechToText(t, r)
    \/ ProcessAudio(t)
    \/ WhisperFullBegin(t)
    \/ \E txt \in SegTexts : EncoderPass(t, txt)
    \/ \E st \in StatusValues : WhisperFullEnd(t, st)
    \/ FullNSegments(t)
    \/ \E g \in SegTexts, f \in BOOLEAN : SegmentLoop(t, g, f)
    \/ Respond(t)

\* every worker thread keeps being scheduled and every engine run goes on
FairSpec == Spec /\ \A t \in Threads : WF_vars(ThreadStep(t))

\* ------------------------------------------------------- main's start-up
\* main calls InitializeWhisper on the parsed parameters and returns 1 when
\* it gets no handle
MainInitializeWhisper ==
    /\ main_pc = "init"
    /\ whisper_ctx' = InitializeWhisper(wparams, env.model)
    /\ IF ~whisper_ctx'.loaded
       THEN main_pc' = "exited" /\ exit_code' = 1
       ELSE main_pc' = "bind" /\ UNCHANGED exit_code
    /\ UNCHANGED <<pc, req, locals, response, connClosed, decodeCalls,
                   engineCalls, jobText, ctxSegs, is_aborted, gateQueue,
                   crashed, wparams, env, parseVars, released, conn>>

\* main that goes on to listen whatever bind_to_port returns
BindToPortIgnored ==
    /\ main_pc = "bind"
    /\ main_pc' = "listening"
    /\ UNCHANGED <<pc, req, locals, response, connClosed, decodeCalls,
                   engineCalls, jobText, ctxSegs, is_aborted, gateQueue,
                   crashed, exit_code, wparams, whisper_ctx, env, parseVars,
                   released, conn>>

\* main registers the handlers and binds the port: it returns 1 when the
\* bind fails, and otherwise enters listen_after_bind
BindToPort ==
    /\ main_pc = "bind"
    /\ IF ~env.port_free
       THEN main_pc' = "exited" /\ exit_code' = 1
       ELSE main_pc' = "listening" /\ UNCHANGED exit_code
    /\ UNCHANGED <<pc, req, locals, response, connClosed, decodeCalls,
                   engineCalls, jobText, ctxSegs, is_aborted, gateQueue,
                   crashed, wparams, whisper_ctx, env, parseVars, released,
                   conn>>

\* listen_after_bind returns, which it does when the Server has stopped and
\* its worker threads have finished: with true, and main calls ReleaseWhisper
\* and returns 0, or with false, and main returns 1
ListenAfterBind(ret) ==
    /\ main_pc = "listening"
    /\ \A t \in Threads : pc[t] \in {"idle", "done"}
    /\ main_pc' = "exited"
    /\ IF ret
       THEN released' = released + 1 /\ exit_code' = 0
       ELSE exit_code' = 1 /\ UNCHANGED released
    /\ UNCHANGED <<pc, req, locals, response, connClosed, decodeCalls,
                   engineCalls, jobText, ctxSegs, is_aborted, gateQueue,
                   crashed, wparams, whisper_ctx, env, parseVars, conn>>

\* the process, started in environment e, has parsed its arguments
Started(e) ==
    /\ main_pc     = "init"
    /\ exit_code   = -1
    /\ Parsed(CommandLine(e.args))
    /\ whisper_ctx = NoCtx
    /\ env         = e
    /\ released    = 0

\* ------------------------------------------------------------- ArgSpec
\* main leaves through exit or a signal while it parses: no thread exists
ParseExit(code, fault) ==
    /\ main_pc'   = "exited"
    /\ exit_code' = code
    /\ crashed'   = fault

\* one iteration of the loop of server_params_parse, or its end: exit(1)
\* after the break of a flag without its value, the return to main otherwise
ServerParamsParse ==
    /\ main_pc = "server_params_parse"
    /\ IF argi >= Len(argv)
       THEN /\ main_pc' = "whisper_params_parse"
            /\ argi'    = 1
            /\ UNCHANGED <<exit_code, crashed, argv_read, sparams, gpt_params,
                           stderr>>
       ELSE LET r == ServerArg(sparams, gpt_params, argv, argi)
            IN  /\ argv_read'  = MaxInt(argv_read, r.read)
                /\ sparams'    = r.sparams
                /\ gpt_params' = r.gpt_params
                /\ stderr'     = stderr \o r.lines
                /\ IF r.outcome = "next"
                   THEN argi' = r.i + 1 /\ UNCHANGED <<main_pc, exit_code, crashed>>
                   ELSE /\ argi' = r.i
                        /\ IF r.outcome = "invalid" THEN ParseExit(1, FALSE)
                           ELSE IF r.outcome = "help" THEN ParseExit(0, FALSE)
                           ELSE ParseExit(134, TRUE)
    /\ UNCHANGED <<pc, req, locals, response, connClosed, decodeCalls,
                   engineCalls, jobText, ctxSegs, is_aborted, gateQueue,
                   wparams, whisper_ctx, env, argv, released, conn>>

\* one iteration of the loop of whisper_params_parse, or its return to main
WhisperParamsParse ==
    /\ main_pc = "whisper_params_parse"
    /\ IF argi >= Len(argv)
       THEN /\ main_pc' = "init"
            /\ UNCHANGED <<exit_code, crashed, argi, argv_read, stderr, wparams>>
       ELSE LET r == WhisperArg(wparams, argv, argi)
            IN  /\ argv_read' = MaxInt(argv_read, r.read)
                /\ stderr'    = stderr \o r.lines
                /\ IF r.outcome = "next"
                   THEN /\ argi'    = r.i + 1
                        /\ wparams' = r.params
                        /\ UNCHANGED <<main_pc, exit_code, crashed>>
                   ELSE IF r.outcome = "null"
                   THEN \E u \in WhisperNullValue(wparams, argv[argi + 1]) :
                           /\ wparams' = u.params
                           /\ IF u.outcome = "next"
                              THEN /\ argi' = r.i + 1
                                   /\ UNCHANGED <<main_pc, exit_code, crashed>>
                              ELSE /\ argi' = r.i
                                   /\ IF u.outcome = "segv" THEN ParseExit(139, TRUE)
                                      ELSE ParseExit(134, TRUE)
                   ELSE /\ argi' = r.i
                        /\ UNCHANGED wparams
                        /\ IF r.outcome = "help" THEN ParseExit(0, FALSE)
                           ELSE ParseExit(134, TRUE)
    /\ UNCHANGED <<pc, req, locals, response, connClosed, decodeCalls,
                   engineCalls, jobText, ctxSegs, is_aborted, gateQueue,
                   whisper_ctx, env, argv, sparams, gpt_params, released, conn>>

\* main at its first statement, with a command line of ArgLists, an
\* English-only model at the default path and a free port
ArgInit ==
    /\ Quiet
    /\ main_pc     = "server_params_parse"
    /\ exit_code   = -1
    /\ argv        \in ArgLists
    /\ argi        = 1
    /\ argv_read   = 0
    /\ sparams     = DefaultServerParams
    /\ gpt_params  = DefaultGptParams
    /\ stderr      = <<>>
    /\ wparams     = DefaultParams
    /\ whisper_ctx = NoCtx
    /\ released    = 0
    /\ env         = [DefaultEnv EXCEPT !.args =
                         WhisperParamsParseFrom(DefaultParams, argv, 1, <<>>).params]

ArgNext ==
    \/ ServerParamsParse
    \/ WhisperParamsParse
    \/ MainInitializeWhisper
    \/ BindToPort

ArgSpec == ArgInit /\ [][ArgNext]_vars

\* ------------------------------------------------------------ MainSpec
\* the command lines and environments main is started with: one that
\* serves (German, translate and detect-language on an English-only model),
\* an unknown language, both diarize flags, no model file, a port in use
MainInputs ==
    {[DefaultEnv EXCEPT !.args = [DefaultParams EXCEPT !.language = "de",
                                                       !.translate = TRUE,
                                                       !.detect_language = TRUE]],
     [DefaultEnv EXCEPT !.args = [DefaultParams EXCEPT !.language = "xx"],
                        !.model = "multilingual"],
     [DefaultEnv EXCEPT !.args = [DefaultParams EXCEPT !.diarize = TRUE,
                                                       !.tinydiarize = TRUE]],
     [DefaultEnv EXCEPT !.model = "missing"],
     [DefaultEnv EXCEPT !.port_free = FALSE]}

MainInit == Quiet /\ \E e \in MainInputs : Started(e)

MainNext ==
    \/ MainInitializeWhisper
    \/ BindToPort
    \/ \E ret \in BOOLEAN : ListenAfterBind(ret)
    \/ Next

MainSpec == MainInit /\ [][MainNext]_vars

\* ---------------------------------------------------------- ConfigSpec
\* every parameter set and every environment of a build with NDEBUG; the
\* requests are followed up to the call of the engine
ConfigInit == Quiet /\ \E e \in Environments : e.ndebug /\ Started(e)

ConfigNext ==
    \/ MainInitializeWhisper
    \/ BindToPort
    \/ \E t \in Threads, r \in Requests : SpeechToText(t, r)
    \/ \E t \in Threads : ProcessAudio(t)
    \/ \E t \in Threads : WhisperFullBegin(t)

ConfigSpec == ConfigInit /\ [][ConfigNext]_vars

\* ---------------------------------------------------------- RouterSpec
\* a request the Server answers without ProcessAudio: one of the GET
\* fallbacks, the OPTIONS preflight, or a request no handler matches, which
\* gets status 404 and then the error handler's content
Dispatch(t, h) ==
    /\ main_pc = "listening"
    /\ pc[t] = "idle"
    /\ Route(h) # "speech_to_text"
    /\ http' = [http EXCEPT ![t] = h]
    /\ pc'   = [pc EXCEPT ![t] = "done"]
    /\ response' = [response EXCEPT ![t] =
                        IF Route(h) = "static" THEN StaticContent[h.path]
                        ELSE IF Route(h) = "options" THEN OptionsResponse
                        ELSE ErrorHandlerResponse]
    /\ res_status' = [res_status EXCEPT ![t] = IF Route(h) = "none" THEN 404 ELSE 200]
    /\ UNCHANGED <<req, locals, connClosed, decodeCalls, engineCalls, jobText,
                   ctxSegs, is_aborted, gateQueue, crashed, mainVars, ep>>

RouterNext ==
    \/ \E t \in Threads, h \in OtherRequests : Dispatch(t, h)
    \/ Next

RouterSpec == Init /\ [][RouterNext]_vars

\* ----------------------------------------------------------- FaultSpec
\* the handler of thread t throws e out of ProcessAudio or out of its own
\* code.  A build with NDEBUG catches it at the Server, whose exception
\* handler writes the 500 response, and the thread's stack is unwound; a
\* build without NDEBUG has CPPHTTPLIB_NO_EXCEPTIONS and nothing catches it.
HandlerThrows(t, e) ==
    /\ pc[t] \in {"process", "submit", "engine", "returned", "loop", "respond"}
    /\ IF ~env.ndebug
       THEN Terminate
       ELSE /\ ep'          = [ep EXCEPT ![t] = e]
            /\ response'    = [response EXCEPT ![t] = ExceptionHandlerResponse(e)]
            /\ res_status'  = [res_status EXCEPT ![t] = 500]
            /\ pc'          = [pc EXCEPT ![t] = "done"]
            /\ pcmf32'      = [pcmf32 EXCEPT ![t] = 0]
            /\ params'      = [params EXCEPT ![t] = NoParams]
            /\ full_params' = [full_params EXCEPT ![t] = NoFullParams]
            /\ user_data'   = [user_data EXCEPT ![t] = NoAddr]
            /\ n_segments'  = [n_segments EXCEPT ![t] = 0]
            /\ i'           = [i EXCEPT ![t] = 0]
            /\ output'      = [output EXCEPT ![t] = <<>>]
            /\ result'      = [result EXCEPT ![t] = NullOpt]
            /\ connClosed'  = [connClosed EXCEPT ![t] = FALSE]
            /\ jobText'     = [jobText EXCEPT ![t] = <<>>]
            /\ gateQueue'   = Without(gateQueue, t)
            /\ UNCHANGED <<req, status, decodeCalls, engineCalls, ctxSegs,
                           is_aborted, crashed, mainVars, http>>

\* the server started without arguments and listens, in either build
FaultInit ==
    Quiet /\ \E nd \in BOOLEAN : Listening([DefaultEnv EXCEPT !.ndebug = nd])

FaultNext ==
    \/ \E t \in Threads, e \in Exceptions : HandlerThrows(t, e)
    \/ Next

FaultSpec == FaultInit /\ [][FaultNext]_vars

\* ------------------------------------------------------------ EncodeSpec
\* ProcessAudio has returned the transcript s of a one-segment run to the
\* handler on thread 1; nothing else has happened
EncodeInit ==
    /\ Listening(DefaultEnv)
    /\ \E s \in Transcripts :
          /\ result  = [t \in Threads |-> IF t = 1 THEN Some(s) ELSE NullOpt]
          /\ ctxSegs = <<s>>
    /\ pc          = [t \in Threads |-> IF t = 1 THEN "respond" ELSE "idle"]
    /\ req         = [t \in Threads |->
                         IF t = 1 THEN [hasSpeech |-> TRUE,
                                        audio |-> [wellFormed |-> TRUE, frames |-> 16000]]
                         ELSE NoRequest]
    /\ http        = [t \in Threads |-> IF t = 1 THEN PostSpeech ELSE NoHttp]
    /\ pcmf32      = [t \in Threads |-> IF t = 1 THEN 16000 ELSE 0]
    /\ user_data   = [t \in Threads |-> IF t = 1 THEN AddrIsAborted ELSE NoAddr]
    /\ params      = [t \in Threads |->
                         IF t = 1 THEN AdjustParams(DefaultParams, whisper_ctx)
                         ELSE NoParams]
    /\ full_params = [t \in Threads |->
                         IF t = 1 THEN FullParams(AdjustParams(DefaultParams, whisper_ctx))
                         ELSE NoFullParams]
    /\ status      = [t \in Threads |-> 0]
    /\ n_segments  = [t \in Threads |-> IF t = 1 THEN 1 ELSE 0]
    /\ i           = [t \in Threads |-> IF t = 1 THEN 1 ELSE 0]
    /\ output      = [t \in Threads |-> IF t = 1 THEN result[1].value ELSE <<>>]
    /\ response    = [t \in Threads |-> NoResponse]
    /\ connClosed  = [t \in Threads |-> FALSE]
    /\ decodeCalls = [t \in Threads |-> IF t = 1 THEN 1 ELSE 0]
    /\ engineCalls = [t \in Threads |-> IF t = 1 THEN 1 ELSE 0]
    /\ jobText     = [t \in Threads |-> <<>>]
    /\ is_aborted  = FALSE
    /\ gateQueue   = <<>>
    /\ crashed     = FALSE
    /\ res_status  = [t \in Threads |-> -1]
    /\ ep          = [t \in Threads |-> NoException]

EncodeNext == \E t \in Threads : Respond(t)

EncodeSpec == EncodeInit /\ [][EncodeNext]_vars

\* ------------------------------------------------- reading a response
JsonFlagPrefix == SubSeq(JsonFail, 1, 11)

\* the success flag a client reads in a response: "1", "0", or "none"
SuccessFlag(resp) ==
    IF /\ resp.content_type = "application/json"
       /\ Len(resp.content) >= 12
       /\ SubSeq(resp.content, 1, 11) = JsonFlagPrefix
    THEN resp.content[12]
    ELSE "none"

\* what stands between the opening of the text field and the closing "'}\n"
TextField(resp) ==
    SubSeq(resp.content, Len(JsonOkPrefix) + 1, Len(resp.content) - Len(JsonOkSuffix))

RECURSIVE Concat(_)
Concat(segs) == IF segs = <<>> THEN <<>> ELSE Head(segs) \o Concat(Tail(segs))

\* the standard unescape: a backslash is dropped and the next character kept
RECURSIVE Unescape(_)
Unescape(e) ==
    IF e = <<>> THEN <<>>
    ELSE IF Head(e) = "\\"
         THEN IF Len(e) = 1 THEN <<>>
              ELSE <<e[2]>> \o Unescape(SubSeq(e, 3, Len(e)))
         ELSE <<Head(e)>> \o Unescape(Tail(e))

\* the number of double quotes and backslashes of str
RECURSIVE CountEscaped(_)
CountEscaped(str) ==
    IF str = <<>> THEN 0
    ELSE (IF Head(str) \in {"\"", "\\"} THEN 1 ELSE 0) + CountEscaped(Tail(str))

\* str is what is left of e after some of its characters are taken out
RECURSIVE IsSubsequence(_, _)
IsSubsequence(str, e) ==
    IF str = <<>> THEN TRUE
    ELSE IF e = <<>> THEN FALSE
    ELSE IF Head(str) = Head(e) THEN IsSubsequence(Tail(str), Tail(e))
    ELSE IsSubsequence(str, Tail(e))

\* the position of the first apostrophe of body at or after k that no
\* backslash escapes, Len(body) + 1 when there is none
RECURSIVE ClosingDelimiter(_, _)
ClosingDelimiter(body, k) ==
    IF k > Len(body) THEN Len(body) + 1
    ELSE IF body[k] = "\\" THEN ClosingDelimiter(body, k + 2)
    ELSE IF body[k] = "'" THEN k
    ELSE ClosingDelimiter(body, k + 1)

\* what a reader takes for the text field of a success payload, and what it
\* finds behind the field
ReadTextField(body) ==
    SubSeq(body, Len(JsonOkPrefix) + 1,
           ClosingDelimiter(body, Len(JsonOkPrefix) + 1) - 1)
AfterTextField(body) ==
    SubSeq(body, ClosingDelimiter(body, Len(JsonOkPrefix) + 1) + 1, Len(body))

InEngine(t) == pc[t] = "engine"
Answered(t) == pc[t] = "done"

\* ------------------------------------------------------------------ claims

\* C1: at most one job executes inside whisper_full_parallel on the shared
\* handle at any time.
SingleFlight == Cardinality({t \in Threads : InEngine(t)}) <= 1

\* C2: two jobs whose abort callbacks are installed at the same time never
\* use the same cancellation state.
PerJobCancellation ==
    \A t, u \in Threads :
        (t # u /\ pc[t] \in {"submit", "engine"} /\ pc[u] \in {"submit", "engine"})
            => user_data[t] # user_data[u]

\* C3: the request that enters the engine is the one that reached the call of
\* the engine first among those waiting.
FifoAdmission ==
    [][\A t \in Threads :
          (pc[t] = "submit" /\ pc'[t] = "engine") => Head(gateQueue) = t]_vars

\* C4: when the connection of a request is closed while its job runs in the
\* engine, the cancellation flag the job's abort check reads is eventually set
\* (unless the process dies first).
CancelOnTimeout ==
    \A t \in Threads :
        (connClosed[t] /\ InEngine(t))
            ~> ((user_data[t] = AddrIsAborted /\ is_aborted) \/ crashed)

\* C5: a request without the "speech" field is answered with the plain-text
\* error, not with a success payload, and neither read_wav nor the engine is
\* called for it.
NoSpeechIsError ==
    \A t \in Threads :
        (pc[t] \notin {"idle", "dead"} /\ ~req[t].hasSpeech) =>
            /\ decodeCalls[t] = 0
            /\ engineCalls[t] = 0
            /\ Answered(t) => /\ response[t] = NoSpeechResponse
                              /\ SuccessFlag(response[t]) # "1"

NoSpeechAnswered ==
    \E t \in Threads :
        Answered(t) /\ ~req[t].hasSpeech /\ response[t] = NoSpeechResponse

\* C6: when read_wav fails the request is answered with the payload whose
\* success flag is 0, and the engine is never called for it.
DecodeFailureIsFailure ==
    \A t \in Threads :
        (req[t].hasSpeech /\ decodeCalls[t] > 0 /\ ~ReadWavOk(req[t].audio)) =>
            /\ engineCalls[t] = 0
            /\ pc[t] \in {"respond", "done"}
            /\ Answered(t) => /\ response[t].content = JsonFail
                              /\ SuccessFlag(response[t]) = "0"

DecodeFailureAnswered ==
    \E t \in Threads :
        /\ Answered(t) /\ req[t].hasSpeech /\ ~req[t].audio.wellFormed
        /\ decodeCalls[t] = 1
        /\ response[t].content = JsonFail

AllOrNothing ==
    \A t \in Threads :
        (engineCalls[t] = 1 /\ status[t] # 0) =>
            /\ pc[t] \in {"respond", "done"}
            /\ ~result[t].has_value
            /\ Answered(t) => /\ response[t].content = JsonFail
                              /\ SuccessFlag(response[t]) = "0"

\* a failed run is answered while the handle still holds the segments the
\* run had produced (no other request has touched the handle)
FailedRunWithSegments ==
    \E t \in Threads :
        /\ Answered(t) /\ engineCalls[t] = 1 /\ status[t] # 0
        /\ \A u \in Threads \ {t} : pc[u] = "idle"
        /\ ctxSegs # <<>> /\ Concat(ctxSegs) # <<>>
        /\ response[t].content = JsonFail

\* C9: for a request with the "speech" field the success flag is 1 exactly
\* when read_wav succeeded and the engine returned 0; a transcript that is
\* empty gives a success payload with an empty text field.
SuccessFlagIff ==
    \A t \in Threads :
        (Answered(t) /\ req[t].hasSpeech) =>
            /\ SuccessFlag(response[t]) \in {"0", "1"}
            /\ (SuccessFlag(response[t]) = "1") <=>
                  (ReadWavOk(req[t].audio) /\ engineCalls[t] = 1 /\ status[t] = 0)
            /\ (result[t].has_value /\ result[t].value = <<>>) =>
                  /\ SuccessFlag(response[t]) = "1"
                  /\ TextField(response[t]) = <<>>
                  /\ response[t].content = JsonOkPrefix \o JsonOkSuffix

\* a run that produced segments, all with empty texts, is answered with the
\* success payload (no other request has touched the handle)
EmptyTranscriptSuccess ==
    \E t \in Threads :
        /\ Answered(t) /\ req[t].hasSpeech
        /\ engineCalls[t] = 1 /\ status[t] = 0
        /\ \A u \in Threads \ {t} : pc[u] = "idle"
        /\ ctxSegs # <<>> /\ Concat(ctxSegs) = <<>>
        /\ SuccessFlag(response[t]) = "1" /\ TextField(response[t]) = <<>>

\* C10: on success the transcript ProcessAudio returns is the concatenation,
\* in index order, of the texts of the segments the request's own engine run
\* produced.
TranscriptIsOwnSegments ==
    [][\A t \in Threads :
          (pc[t] \in {"returned", "loop"} /\ pc'[t] = "respond" /\ result'[t].has_value)
              => result'[t].value = jobText[t]]_vars

\* C11: unescaping the escaped transcript gives the transcript back; the
\* escaped text is longer by the number of double quotes and backslashes and
\* holds the characters of the transcript in their order.  The text field of
\* the success payload is that escaped text.
EscapeRoundTrip ==
    \A t \in Threads :
        result[t].has_value =>
            LET str     == result[t].value
                escaped == EscapeDoubleQuotesAndBackslashes(str)
            IN  /\ Unescape(escaped) = str
                /\ Len(escaped) = Len(str) + CountEscaped(str)
                /\ IsSubsequence(str, escaped)
                /\ Answered(t) => TextField(response[t]) = escaped

\* a transcript of a backslash, a double quote and an ordinary character
\* has been answered
EscapedTranscriptAnswered ==
    \E t \in Threads :
        /\ Answered(t)
        /\ result[t] = Some(<<"\\", "\"", "a">>)
        /\ TextField(response[t]) = <<"\\", "\\", "\\", "\"", "a">>

\* C12: in a success payload the text between the opening delimiter of the
\* text field and its first unescaped closing delimiter unescapes to the
\* transcript, and nothing but the end of the payload follows the field.
TextFieldDelimited ==
    \A t \in Threads :
        (Answered(t) /\ result[t].has_value) =>
            /\ Unescape(ReadTextField(response[t].content)) = result[t].value
            /\ AfterTextField(response[t].content) = Tail(JsonOkSuffix)

\* no request has reached a handler
NoRequestHandled ==
    \A t \in Threads : pc[t] = "idle" /\ decodeCalls[t] = 0 /\ engineCalls[t] = 0

\* the process has not got past InitializeWhisper, and left with status 1 if
\* it has left
RejectedAtStartup ==
    /\ ~whisper_ctx.loaded
    /\ main_pc \in {"init", "exited"}
    /\ main_pc = "exited" => exit_code = 1

\* C13: with diarize and tinydiarize both set InitializeWhisper gives no
\* handle, the process leaves with status 1, and no request is handled: no
\* read_wav and no engine call happens.
DiarizeConflictRejected ==
    (wparams.diarize /\ wparams.tinydiarize) =>
        RejectedAtStartup /\ NoRequestHandled

\* the process has left with status 1 although the language is known, the
\* model file is there and the port is free: only the two flags are wrong
DiarizeConflictExit ==
    /\ wparams.diarize /\ wparams.tinydiarize
    /\ wparams.language = "en" /\ env.model = "multilingual" /\ env.port_free
    /\ main_pc = "exited" /\ exit_code = 1

\* C14: the language of every engine call is "auto" or a known language; a
\* configured language that is neither is rejected by InitializeWhisper
\* before the model is loaded, and no engine call happens.
EngineLanguageKnown ==
    /\ \A t \in Threads :
          engineCalls[t] > 0 =>
              full_params[t].language \in KnownLanguages \cup {"auto"}
    /\ wparams.language \notin KnownLanguages \cup {"auto"} =>
          RejectedAtStartup /\ NoRequestHandled

\* the engine runs with the configured language "de" on a multilingual model
EngineRunsConfiguredLanguage ==
    \E t \in Threads :
        /\ InEngine(t) /\ engineCalls[t] = 1
        /\ wparams.language = "de" /\ full_params[t].language = "de"

\* C15: when the parameters are rejected, the model does not load or the port
\* cannot be bound, the process never listens, leaves with status 1 when it
\* leaves, and no handler has run; a handler runs only after InitializeWhisper
\* has given a handle and the port has been bound.
StartupFaultsFatal ==
    /\ (\/ wparams.language \notin KnownLanguages \cup {"auto"}
        \/ wparams.diarize /\ wparams.tinydiarize
        \/ env.model = "missing"
        \/ ~env.port_free) =>
            /\ main_pc # "listening"
            /\ main_pc = "exited" => exit_code = 1
            /\ NoRequestHandled
    /\ (\E t \in Threads : pc[t] # "idle") =>
            whisper_ctx.loaded /\ env.port_free

\* the model has loaded, the bind has failed and the process has left with 1
BindFailureExit ==
    /\ whisper_ctx.loaded /\ ~env.port_free
    /\ main_pc = "exited" /\ exit_code = 1

\* C18: main's whisper_params are at every moment what the command line
\* asked for, whatever requests are handled; ProcessAudio's changes of
\* language and translate go to its own copy.
ConfigUnchanged == wparams = env.args

\* two requests are in ProcessAudio, whose copies carry the forced "auto"
\* and translate off, and main's parameters still say "de" and translate
PrivateCopiesAdjusted ==
    /\ wparams.language = "de" /\ wparams.translate
    /\ \E t, u \in Threads :
          /\ t # u /\ InEngine(t) /\ pc[u] \in {"submit", "engine"}
          /\ params[t].language = "auto" /\ ~params[t].translate
          /\ params[u].language = "auto" /\ ~params[u].translate

\* C20: the engine gets max_len 60 when output_wts is set and max_len is 0
\* and the configured max_len otherwise, and token_timestamps exactly when
\* output_wts is set or max_len > 0; so max_len > 0 comes with
\* token_timestamps.
DerivedWordFields ==
    \A t \in Threads :
        engineCalls[t] > 0 =>
            /\ full_params[t].max_len =
                  (IF wparams.output_wts /\ wparams.max_len = 0
                   THEN 60 ELSE wparams.max_len)
            /\ full_params[t].token_timestamps =
                  (wparams.output_wts \/ wparams.max_len > 0)
            /\ full_params[t].max_len > 0 => full_params[t].token_timestamps

\* the engine runs with max_len 60 and token_timestamps from output_wts
\* alone
WordOutputDefaultsMaxLen ==
    \E t \in Threads :
        /\ InEngine(t)
        /\ wparams.output_wts /\ wparams.max_len = 0
        /\ full_params[t].max_len = 60 /\ full_params[t].token_timestamps

\* C19: for each request read_wav runs at most once and the engine is called
\* at most once; a request whose read_wav has failed is at its response,
\* with no call of the engine, and a request whose engine run has failed is
\* at its response too; the response of either is the failure payload.
NoRetries ==
    \A t \in Threads :
        /\ decodeCalls[t] <= 1 /\ engineCalls[t] <= 1
        /\ (pc[t] # "dead" /\ decodeCalls[t] = 1 /\ ~ReadWavOk(req[t].audio)) =>
              /\ pc[t] \in {"respond", "done"}
              /\ engineCalls[t] = 0
              /\ pc[t] = "done" => response[t].content = JsonFail
        /\ (pc[t] # "dead" /\ engineCalls[t] = 1 /\ status[t] # 0) =>
              /\ pc[t] \in {"respond", "done"}
              /\ pc[t] = "done" => response[t].content = JsonFail

\* one request has been answered after its one failed read_wav, another
\* after its one failed engine run
FailedOnceAnswered ==
    \E t, u \in Threads :
        /\ Answered(t) /\ decodeCalls[t] = 1 /\ engineCalls[t] = 0
        /\ req[t].hasSpeech /\ response[t].content = JsonFail
        /\ Answered(u) /\ decodeCalls[u] = 1 /\ engineCalls[u] = 1
        /\ status[u] # 0 /\ response[u].content = JsonFail

InHandler(t) ==
    pc[t] \in {"process", "submit", "engine", "returned", "loop", "respond"}

StrategySelection ==
    \A t \in Threads :
        engineCalls[t] > 0 =>
            /\ full_params[t].strategy =
                  (IF wparams.beam_size > 1 THEN "WHISPER_SAMPLING_BEAM_SEARCH"
                   ELSE "WHISPER_SAMPLING_GREEDY")
            /\ full_params[t].greedy.best_of = wparams.best_of
            /\ full_params[t].beam_search.beam_size = wparams.beam_size

\* the engine runs a beam search of width 2 with best_of 5
BeamSearchRuns ==
    \E t \in Threads :
        /\ InEngine(t)
        /\ wparams.beam_size = 2 /\ wparams.best_of = 5
        /\ full_params[t].strategy = "WHISPER_SAMPLING_BEAM_SEARCH"
        /\ full_params[t].greedy.best_of = 5
        /\ full_params[t].beam_search.beam_size = 2

\* C25: with a model that is not multilingual the engine is called with
\* language "en" and translate off, whatever language, translate and
\* detect_language are configured.
EnglishOnlyIgnoresOptions ==
    \A t \in Threads :
        (engineCalls[t] > 0 /\ ~whisper_is_multilingual(whisper_ctx)) =>
            /\ full_params[t].language = "en"
            /\ ~full_params[t].translate

\* C23: while a request is between its call of the engine and the end of
\* its reads of the segments, no other request's engine run starts or
\* finishes, and the transcript the request returns is made of the segments
\* of its own run.
NoCrossTalk ==
    [][\A t \in Threads :
          /\ pc[t] \in {"engine", "returned", "loop"} =>
                \A u \in Threads \ {t} :
                    /\ ~(pc[u] = "submit" /\ pc'[u] = "engine")
                    /\ ~(pc[u] = "engine" /\ pc'[u] \in {"returned", "respond"})
          /\ (pc[t] \in {"returned", "loop"} /\ pc'[t] = "respond"
                 /\ result'[t].has_value) =>
                result'[t].value = jobText[t]]_vars

\* C22: an argument that starts with '-' and that the parser at work does
\* not know is reported on stderr and changes no member of that parser's
\* parameters; the process does not end and the parser goes on with the
\* next argument.
UnknownFlagsIgnored ==
    [][/\ (/\ main_pc = "server_params_parse" /\ argi < Len(argv)
           /\ FirstChar(argv[argi + 1]) = "-"
           /\ argv[argi + 1] \notin ServerFlags) =>
              /\ sparams' = sparams /\ gpt_params' = gpt_params
              /\ stderr' = Append(stderr, UnknownServerArgument(argv[argi + 1]))
              /\ main_pc' = "server_params_parse" /\ exit_code' = -1 /\ ~crashed'
              /\ argi' = argi + 1
       /\ (/\ main_pc = "whisper_params_parse" /\ argi < Len(argv)
           /\ FirstChar(argv[argi + 1]) = "-" /\ argv[argi + 1] # "-"
           /\ argv[argi + 1] \notin WhisperFlags) =>
              /\ wparams' = wparams
              /\ stderr' = Append(stderr, UnknownWhisperArgument(argv[argi + 1]))
              /\ main_pc' = "whisper_params_parse" /\ exit_code' = -1 /\ ~crashed'
              /\ argi' = argi + 1]_vars

\* both parsers have reported the flag neither knows and have taken what
\* follows it: the server its port, whisper (which does not know --port
\* either) the positional argument
UnknownFlagThenKnown ==
    /\ main_pc = "init"
    /\ argv = <<ProgramName, "-x", "--port", "2">>
    /\ stderr = <<UnknownServerArgument("-x"), UnknownWhisperArgument("-x"),
                  UnknownWhisperArgument("--port")>>
    /\ sparams.port = 2
    /\ wparams.fname_inp = <<"2">>

\* C26: the parsers read argv only below argc, and the loop variable does
\* not pass argc.
NoReadPastArgc ==
    /\ argv_read < Len(argv)
    /\ argi <= Len(argv)

\* C24: ReleaseWhisper is called at most once, it has been called once when
\* main has returned (with 0 or 1) holding a handle, and it is called only
\* when main has left the Server and no request is being handled.
HandleReleasedOnce ==
    /\ released <= 1
    /\ (main_pc = "exited" /\ exit_code \in {0, 1} /\ whisper_ctx.loaded) =>
          released = 1
    /\ released > 0 =>
          /\ main_pc = "exited"
          /\ \A t \in Threads : pc[t] \in {"idle", "done"}

=============================================================================
